---- MODULE Spec2Model ----
(***************************************************************************)
(* StepProgressBar (gui/stepprogressbar/widget.py): the ordered steps, the  *)
(* key mapping, the active index and the repaint timer, driven by the      *)
(* widget's public methods, the timer callback and the host's paint cycle. *)
(*                                                                         *)
(* Indices are Python's (0-based); steps is a TLA+ sequence, so the step   *)
(* with Python index i is steps[i + 1].                                    *)
(* Layout arithmetic is exact rational arithmetic: the cursor of draw() is *)
(* kept as a numerator over the denominator 2 * totalStepWeight.  Python   *)
(* computes it in doubles, which agree with the rationals only where the   *)
(* shares weight / totalStepWeight are exact; WidthInputs is chosen so.    *)
(***************************************************************************)
EXTENDS Integers, Sequences, FiniteSets, TLC

VARIABLES
    steps,      \* self.steps: sequence of Step records
    keys,       \* self.keys: dict key -> index
    active,     \* self.active
    timer,      \* self.timer.isActive()
    visible,    \* host: the widget is shown, so repaint() paints at once
    raised,     \* exception raised by the last call ("None" when it returned)
    lastOp,     \* history: the last call and its argument
    stepKeys,   \* history: the key each current step was added with
    circle,     \* SpinningCircle: its timer, the clock and the arc last drawn
    filter,     \* StepFilter: the FilterItems of the view and the summary
    tree        \* TreeWidget: the items of the tree and a walk over them

vars == <<steps, keys, active, timer, visible, raised, lastOp, stepKeys,
          circle, filter, tree>>

\* the variables of the step progress bar's data
barVars == <<steps, keys, active, timer, visible, stepKeys>>

\* the variables of the other widgets
otherVars == <<circle, filter, tree>>

----------------------------------------------------------------------------
(* Bounds and inputs *)

MaxSteps == 3

NoKey == "None"

\* the arguments addStep is called with: <<key, text, weight>>
StepInputs == { <<"input", "Input", 1>>, <<NoKey, "", 0>> }

\* the addStep calls of the concrete scenario, in order
ScenarioSteps ==
    << <<"input", "Input", 1>>, <<"align", "Align", 3>>, <<"export", "Export", 1>> >>

\* the keys activateKey is called with ("ghost" is never registered)
KeyInputs == {NoKey, "input", "align", "export", "ghost"}

\* the lists of strings setSteps and the constructor are called with
StringsInputs == { <<>>, <<"align">>, <<"align", "input">>, <<"align", "align">> }

\* the indices activateIndex is called with
IndexInputs == -2 .. (MaxSteps + 1)

\* widget widths the host reports in self.size().width(): a width at which
\* the double arithmetic of draw() gives exactly the rational result for
\* every step list of this model (checked by running the loop of draw)
WidthInputs == {301}

\* QFontMetrics.horizontalAdvance(text) under the widget font
TextWidth(text) ==
    CASE text = "Input"  -> 35
      [] text = "Align"  -> 30
      [] text = "Export" -> 42
      [] OTHER           -> 0

textPadding == 20

Statuses == {"Pending", "Active", "Ongoing", "Failed", "Complete", "Final"}

----------------------------------------------------------------------------
(* Step dataclass *)

Step(text, weight) ==
    [text |-> text, weight |-> weight, status |-> "Pending",
     width |-> 0, pos |-> 0]

\* StepProgressBar.updateStepWidth
updateStepWidth(step) == [step EXCEPT !.width = TextWidth(step.text)]

\* the object's data fields as one record
Bar == [steps |-> steps, keys |-> keys, active |-> active, timer |-> timer,
        stepKeys |-> stepKeys]

\* a call's outcome: the object after it and the exception it raised
Ret(b, exc) == [bar |-> b, exc |-> exc]

\* dict item assignment d[k] = v
DictSet(d, k, v) == [x \in (DOMAIN d) \cup {k} |-> IF x = k THEN v ELSE d[x]]

EmptyDict == [x \in {} |-> 0]

----------------------------------------------------------------------------
(* addStep / setSteps *)

\* addStep with the key recorded as a 1-based position
addStepMut(b, key, text, weight) ==
    LET step == updateStepWidth(Step(text, weight))
        s    == Append(b.steps, step)
    IN [b EXCEPT !.steps = s,
                 !.keys = IF key # NoKey THEN DictSet(b.keys, key, Len(s))
                          ELSE b.keys,
                 !.stepKeys = Append(b.stepKeys, key)]

\* addStep inserting the step at the front of the list
addStepFrontMut(b, key, text, weight) ==
    LET step == updateStepWidth(Step(text, weight))
        s    == <<step>> \o b.steps
    IN [b EXCEPT !.steps = s,
                 !.keys = IF key # NoKey THEN DictSet(b.keys, key, Len(s) - 1)
                          ELSE b.keys,
                 !.stepKeys = Append(b.stepKeys, key)]

\* StepProgressBar.addStep(key, text, weight)
addStep(b, key, text, weight) ==
    LET step == updateStepWidth(Step(text, weight))
        s    == Append(b.steps, step)
    IN [b EXCEPT !.steps = s,
                 !.keys = IF key # NoKey THEN DictSet(b.keys, key, Len(s) - 1)
                          ELSE b.keys,
                 !.stepKeys = Append(b.stepKeys, key)]

RECURSIVE addStrings(_, _)
\* the loop of setSteps: addStep(string) for each string, in order
addStrings(b, strings) ==
    IF strings = <<>> THEN b
    ELSE addStrings(addStep(b, Head(strings), "", 1), Tail(strings))

\* setSteps that also forgets the activation
setStepsResetMut(b, strings) ==
    addStrings([b EXCEPT !.steps = <<>>, !.keys = EmptyDict,
                         !.stepKeys = <<>>, !.active = -1], strings)

\* setSteps keeping the old key mapping
setStepsMut(b, strings) ==
    addStrings([b EXCEPT !.steps = <<>>, !.stepKeys = <<>>], strings)

\* StepProgressBar.setSteps(strings)
setSteps(b, strings) ==
    addStrings([b EXCEPT !.steps = <<>>, !.keys = EmptyDict,
                         !.stepKeys = <<>>], strings)

----------------------------------------------------------------------------
(* draw: the layout pass and the connecting lines *)

Abs(x) == IF x < 0 THEN -x ELSE x

\* Python's int(num / den): truncation towards zero
Trunc(num, den) ==
    IF (num < 0) = (den < 0) THEN Abs(num) \div Abs(den)
    ELSE -(Abs(num) \div Abs(den))

RECURSIVE SumWeight(_)
SumWeight(s) == IF s = <<>> THEN 0 ELSE Head(s).weight + SumWeight(Tail(s))

RECURSIVE SumWidth(_)
SumWidth(s) == IF s = <<>> THEN 0 ELSE Head(s).width + SumWidth(Tail(s))

\* self.steps[:-1]
ButLast(s) == IF s = <<>> THEN <<>> ELSE SubSeq(s, 1, Len(s) - 1)

\* the weights of all steps, the last one included
totalStepWeightMut(s) == SumWeight(s)

\* sum(step.weight for step in self.steps[:-1])
totalStepWeight(s) == SumWeight(ButLast(s))

\* minimumWidth with one padding per step only
minimumWidthMut(s) == SumWidth(s) + textPadding * Len(s)

\* StepProgressBar.minimumWidth
minimumWidth(s) == SumWidth(s) + textPadding * (Len(s) + 1)

\* the anchor of one step: int(cursor) after the padding and half the text
\* width; cursor is a numerator over den = 2 * totalStepWeight
anchorOf(step, cursor, den) ==
    Trunc(cursor + textPadding * den + step.width * (den \div 2), den)

\* the cursor after one step with the extra width shared equally
cursorAfterMut(step, cursor, den, extraWidth) ==
    cursor + textPadding * den + step.width * den + 2 * extraWidth

\* the cursor after one step: padding, the text width and the weighted share
\* (step.weight / totalStepWeight) * extraWidth
cursorAfter(step, cursor, den, extraWidth) ==
    cursor + textPadding * den + step.width * den + 2 * step.weight * extraWidth

RECURSIVE layoutFrom(_, _, _, _, _)
\* the loop of draw from step k on, totalStepWeight # 0
layoutFrom(s, k, cursor, den, extraWidth) ==
    IF k > Len(s) THEN s
    ELSE layoutFrom([s EXCEPT ![k].pos = anchorOf(s[k], cursor, den)],
                    k + 1, cursorAfter(s[k], cursor, den, extraWidth),
                    den, extraWidth)

\* Python list indexing self.steps[index] succeeds
ValidIndex(s, index) == -Len(s) <= index /\ index < Len(s)

\* drawStepLines: x = self.steps[self.active].pos raises IndexError when
\* self.active is no valid list index
drawStepLines(s, act) == IF ValidIndex(s, act) THEN "None" ELSE "IndexError"

indicatorPadding == 6

\* states.AbstractStatus.indicatorRadius: one constant shared by all statuses
indicatorRadius == 6

\* StepProgressBar.drawStepLine: the pen and the end points of one segment
drawStepLine(isComplete, x1, x2) ==
    [color |-> IF isComplete THEN "bold" ELSE "base",
     penWidth |-> IF isComplete THEN 2 ELSE 1,
     x1 |-> x1, x2 |-> x2]

\* Python's self.steps[index] for a valid index: negative indices count
\* from the end
ListItem(s, index) == IF index >= 0 THEN s[index + 1] ELSE s[Len(s) + index + 1]

\* the loop of drawStepLines with the left end point compared to x
drawnLinesMut(s, act) ==
    LET x == ListItem(s, act).pos
    IN  [j \in 1 .. Len(s) - 1 |->
            LET x1 == s[j].pos + indicatorRadius + indicatorPadding
                x2 == s[j + 1].pos - indicatorRadius - indicatorPadding
            IN drawStepLine(x1 < x, x1, x2)]

\* the loop of drawStepLines: the segments drawn between adjacent steps, in
\* order, when self.active is a valid list index
drawnLines(s, act) ==
    LET x == ListItem(s, act).pos
    IN  [j \in 1 .. Len(s) - 1 |->
            LET x1 == s[j].pos + indicatorRadius + indicatorPadding
                x2 == s[j + 1].pos - indicatorRadius - indicatorPadding
            IN drawStepLine(x2 < x, x1, x2)]

\* a draw that also stops the timer
drawMut(b, w) ==
    LET s     == b.steps
        total == totalStepWeight(s)
        extra == w - minimumWidth(s)
    IN  IF s # <<>> /\ total = 0
        THEN Ret([b EXCEPT !.steps[1].pos = Trunc(2 * textPadding + s[1].width, 2),
                           !.timer = FALSE],
                 "ZeroDivisionError")
        ELSE LET s2 == layoutFrom(s, 1, 0, 2 * total, extra)
             IN Ret([b EXCEPT !.steps = s2, !.timer = FALSE],
                    drawStepLines(s2, b.active))

\* StepProgressBar.draw at widget width w: the steps with their new
\* positions and the exception raised.  With totalStepWeight = 0 the first
\* division raises after the first step's position is stored.
draw(b, w) ==
    LET s     == b.steps
        total == totalStepWeight(s)
        extra == w - minimumWidth(s)
    IN  IF s # <<>> /\ total = 0
        THEN Ret([b EXCEPT !.steps[1].pos = Trunc(2 * textPadding + s[1].width, 2)],
                 "ZeroDivisionError")
        ELSE LET s2 == layoutFrom(s, 1, 0, 2 * total, extra)
             IN Ret([b EXCEPT !.steps = s2], drawStepLines(s2, b.active))

\* QWidget.repaint(): paintEvent runs at once when the widget is shown
repaint(b, vis, w) == IF vis THEN draw(b, w) ELSE Ret(b, "None")

----------------------------------------------------------------------------
(* draw in double arithmetic.  The cursor is a double; every term but the  *)
(* share (step.weight / totalStepWeight) * extraWidth is an exact multiple *)
(* of 0.5.  The share is exact when it is 0 or weight / totalStepWeight is *)
(* a dyadic fraction; after an inexact share the double may lie a rounding *)
(* error off the rational cursor, which changes int(cursor) only where the *)
(* rational cursor is a whole number: the double is then that number or    *)
(* just short of it, so int() gives it or its neighbour towards zero.      *)

\* (step.weight / totalStepWeight) * extraWidth is computed without rounding
ExactShare(weight, total, extraWidth) ==
    weight = 0 \/ extraWidth = 0 \/ (weight * 1024) % total = 0

\* the values int(cursor) can take at one step's anchor
anchorOutcomes(step, cursor, den, inexact) ==
    LET n == anchorOf(step, cursor, den)
    IN  IF inexact /\ (cursor + step.width * (den \div 2)) % den = 0 /\ n # 0
        THEN {n, IF n > 0 THEN n - 1 ELSE n + 1}
        ELSE {n}

RECURSIVE layoutOutcomes(_, _, _, _, _, _)
\* the loop of draw from step k on in doubles: every list of positions it
\* can leave; inexact tells that an earlier share was rounded
layoutOutcomes(s, k, cursor, den, extraWidth, inexact) ==
    IF k > Len(s) THEN {s}
    ELSE UNION { layoutOutcomes([s EXCEPT ![k].pos = p], k + 1,
                                cursorAfter(s[k], cursor, den, extraWidth),
                                den, extraWidth,
                                inexact \/ ~ExactShare(s[k].weight, den \div 2,
                                                       extraWidth))
                 : p \in anchorOutcomes(s[k], cursor, den, inexact) }

\* StepProgressBar.draw at widget width w in doubles: the set of outcomes
drawOutcomes(b, w) ==
    LET s     == b.steps
        total == totalStepWeight(s)
        extra == w - minimumWidth(s)
    IN  IF s # <<>> /\ total = 0 THEN {draw(b, w)}
        ELSE { Ret([b EXCEPT !.steps = s2], drawStepLines(s2, b.active))
               : s2 \in layoutOutcomes(s, 1, 0, 2 * total, extra, FALSE) }

----------------------------------------------------------------------------
(* status changes *)

\* setStatus without the lower bound: index -1 writes self.steps[-1]
setStatusMut(b, status) ==
    LET index == b.active
    IN [b EXCEPT !.steps = IF index < Len(b.steps) /\ b.steps # <<>>
                           THEN [b.steps EXCEPT
                                   ![IF index >= 0 THEN index + 1 ELSE Len(b.steps)]
                                       .status = status]
                           ELSE b.steps,
                 !.timer = FALSE]

\* StepProgressBar.setStatus(status)
setStatus(b, status) ==
    LET index == b.active
    IN [b EXCEPT !.steps = IF index >= 0 /\ index < Len(b.steps)
                           THEN [b.steps EXCEPT ![index + 1].status = status]
                           ELSE b.steps,
                 !.timer = FALSE]

\* StepProgressBar.setActive
setActive(b) == [setStatus(b, "Active") EXCEPT !.timer = FALSE]

\* StepProgressBar.setFailed
setFailed(b) == [setStatus(b, "Failed") EXCEPT !.timer = FALSE]

\* setOngoing that leaves the timer stopped
setOngoingMut(b) == [setStatus(b, "Ongoing") EXCEPT !.timer = FALSE]

\* StepProgressBar.setOngoing
setOngoing(b) == [setStatus(b, "Ongoing") EXCEPT !.timer = TRUE]

----------------------------------------------------------------------------
(* activation *)

Min(a, c) == IF a < c THEN a ELSE c
Max(a, c) == IF a > c THEN a ELSE c

\* index = min(max(index, -1), len(self.steps))
clampIndex(index, n) == Min(Max(index, -1), n)

\* the Final stamp left out
stampFinalMut(s) == s

\* self.steps[-1].status = states.Final
stampFinal(s) == [s EXCEPT ![Len(s)].status = "Final"]

\* range(1, index): the first step is skipped
stampCompleteMut(s, index) ==
    [k \in 1 .. Len(s) |->
        IF 1 <= k - 1 /\ k - 1 < index
        THEN [s[k] EXCEPT !.status = "Complete"] ELSE s[k]]

\* for i in range(0, index): self.steps[i].status = states.Complete
stampComplete(s, index) ==
    [k \in 1 .. Len(s) |->
        IF 0 <= k - 1 /\ k - 1 < index
        THEN [s[k] EXCEPT !.status = "Complete"] ELSE s[k]]

\* range(index + 2, len(self.steps) - 1): the step after index is skipped
stampPendingMut(s, index) ==
    [k \in 1 .. Len(s) |->
        IF index + 2 <= k - 1 /\ k - 1 < Len(s) - 1
        THEN [s[k] EXCEPT !.status = "Pending"] ELSE s[k]]

\* for i in range(index + 1, len(self.steps) - 1): ... = states.Pending
stampPending(s, index) ==
    [k \in 1 .. Len(s) |->
        IF index + 1 <= k - 1 /\ k - 1 < Len(s) - 1
        THEN [s[k] EXCEPT !.status = "Pending"] ELSE s[k]]

\* StepProgressBar.activateIndex(index); self.steps[-1] raises IndexError
\* on an empty list before anything is written
activateIndex(b, index0, vis, w) ==
    LET index == clampIndex(index0, Len(b.steps))
    IN  IF b.steps = <<>> THEN Ret(b, "IndexError")
        ELSE LET s3 == stampPending(stampComplete(stampFinal(b.steps), index), index)
                 b1 == setActive([b EXCEPT !.steps = s3, !.active = index])
             IN repaint(b1, vis, w)

\* activateKey passing the key's index as a 1-based position
activateKeyMut(b, key, vis, w) ==
    IF key # NoKey /\ key \notin DOMAIN b.keys THEN Ret(b, "KeyError")
    ELSE activateIndex(b, IF key # NoKey THEN b.keys[key] + 1 ELSE -1, vis, w)

\* StepProgressBar.activateKey(key); self.keys[key] raises KeyError for a
\* key that is not None and not registered
activateKey(b, key, vis, w) ==
    IF key # NoKey /\ key \notin DOMAIN b.keys THEN Ret(b, "KeyError")
    ELSE activateIndex(b, IF key # NoKey THEN b.keys[key] ELSE -1, vis, w)

\* StepProgressBar.activateNext
activateNext(b, vis, w) == activateIndex(b, b.active + 1, vis, w)

\* StepProgressBar.activatePrevious
activatePrevious(b, vis, w) == activateIndex(b, b.active - 1, vis, w)

----------------------------------------------------------------------------
(* The state machine *)

\* a call's record: its name, and the key or index it was given
Op(name) == [op |-> name, key |-> NoKey, index |-> 0]
OpKey(key) == [op |-> "activateKey", key |-> key, index |-> 0]
OpIndex(index) == [op |-> "activateIndex", key |-> NoKey, index |-> index]

\* assign the outcome of a call to the variables
Becomes(r, op) ==
    /\ steps' = r.bar.steps
    /\ keys' = r.bar.keys
    /\ active' = r.bar.active
    /\ timer' = r.bar.timer
    /\ stepKeys' = r.bar.stepKeys
    /\ raised' = r.exc
    /\ lastOp' = op
    /\ UNCHANGED otherVars

\* SpinningCircle.__init__: the timer is not started; nothing is drawn yet
NewCircle == [timer |-> FALSE, now |-> 0, arc |-> 0]

\* StepFilter before add_dummy_contents: no items, the counters at 0
NewFilter == [items |-> <<>>, renamed |-> 0, deleted |-> 0, signals |-> <<>>]

\* TreeWidget.__init__: no items
NewTree == [parent |-> <<>>, start |-> 0, end |-> 0, item |-> 0,
            visited |-> <<>>, done |-> FALSE]

\* the other widgets as constructed, while the bar is exercised
OthersIdle ==
    /\ circle = NewCircle
    /\ filter = NewFilter
    /\ tree = NewTree

\* StepProgressBar.__init__(steps=strings)
Init ==
    \E strings \in StringsInputs :
        LET b == setSteps([steps |-> <<>>, keys |-> EmptyDict, active |-> -1,
                           timer |-> FALSE, stepKeys |-> <<>>], strings)
        IN  /\ steps = b.steps
            /\ keys = b.keys
            /\ active = b.active
            /\ timer = b.timer
            /\ stepKeys = b.stepKeys
            /\ visible = FALSE
            /\ raised = "None"
            /\ lastOp = Op("init")
            /\ OthersIdle

AddStep ==
    /\ Len(steps) < MaxSteps
    /\ \E in \in StepInputs :
          Becomes(Ret(addStep(Bar, in[1], in[2], in[3]), "None"), Op("addStep"))
    /\ UNCHANGED visible

SetSteps ==
    /\ \E strings \in StringsInputs :
          Becomes(Ret(setSteps(Bar, strings), "None"), Op("setSteps"))
    /\ UNCHANGED visible

ActivateKey ==
    /\ \E key \in KeyInputs, w \in WidthInputs :
          Becomes(activateKey(Bar, key, visible, w), OpKey(key))
    /\ UNCHANGED visible

ActivateIndex ==
    /\ \E index \in IndexInputs, w \in WidthInputs :
          Becomes(activateIndex(Bar, index, visible, w), OpIndex(index))
    /\ UNCHANGED visible

ActivateNext ==
    /\ \E w \in WidthInputs :
          Becomes(activateNext(Bar, visible, w), Op("activateNext"))
    /\ UNCHANGED visible

ActivatePrevious ==
    /\ \E w \in WidthInputs :
          Becomes(activatePrevious(Bar, visible, w), Op("activatePrevious"))
    /\ UNCHANGED visible

SetActive ==
    /\ Becomes(Ret(setActive(Bar), "None"), Op("setActive"))
    /\ UNCHANGED visible

SetFailed ==
    /\ Becomes(Ret(setFailed(Bar), "None"), Op("setFailed"))
    /\ UNCHANGED visible

SetOngoing ==
    /\ Becomes(Ret(setOngoing(Bar), "None"), Op("setOngoing"))
    /\ UNCHANGED visible

\* StepProgressBar.handleTimer: the timer's timeout signal, while it runs
HandleTimer ==
    /\ timer
    /\ \E w \in WidthInputs : Becomes(repaint(Bar, visible, w), Op("handleTimer"))
    /\ UNCHANGED visible

\* StepProgressBar.paintEvent: the host paints the shown widget
PaintEvent ==
    /\ visible
    /\ \E w \in WidthInputs : Becomes(draw(Bar, w), Op("paintEvent"))
    /\ UNCHANGED visible

\* host: QWidget.show() / hide()
Show ==
    /\ ~visible
    /\ visible' = TRUE
    /\ UNCHANGED <<steps, keys, active, timer, raised, lastOp, stepKeys>>
    /\ UNCHANGED otherVars

Hide ==
    /\ visible
    /\ visible' = FALSE
    /\ UNCHANGED <<steps, keys, active, timer, raised, lastOp, stepKeys>>
    /\ UNCHANGED otherVars

Next ==
    \/ AddStep
    \/ SetSteps
    \/ ActivateKey
    \/ ActivateIndex
    \/ ActivateNext
    \/ ActivatePrevious
    \/ SetActive
    \/ SetFailed
    \/ SetOngoing
    \/ HandleTimer
    \/ PaintEvent
    \/ Show
    \/ Hide

Spec == Init /\ [][Next]_vars

----------------------------------------------------------------------------
(* The concrete scenario: an empty bar, the scenario's addStep calls in    *)
(* order, and any navigation and status calls around them.                 *)

InitScenario ==
    /\ steps = <<>>
    /\ keys = EmptyDict
    /\ active = -1
    /\ timer = FALSE
    /\ stepKeys = <<>>
    /\ visible = FALSE
    /\ raised = "None"
    /\ lastOp = Op("init")
    /\ OthersIdle

AddScenarioStep ==
    /\ Len(steps) < Len(ScenarioSteps)
    /\ LET in == ScenarioSteps[Len(steps) + 1]
       IN Becomes(Ret(addStep(Bar, in[1], in[2], in[3]), "None"), Op("addStep"))
    /\ UNCHANGED visible

NextScenario ==
    \/ AddScenarioStep
    \/ ActivateKey
    \/ ActivateIndex
    \/ ActivateNext
    \/ ActivatePrevious
    \/ SetActive
    \/ SetFailed
    \/ SetOngoing
    \/ HandleTimer
    \/ PaintEvent
    \/ Show
    \/ Hide

SpecScenario == InitScenario /\ [][NextScenario]_vars

----------------------------------------------------------------------------
(* The layout pass: draw applied at several widths to bars of steps with   *)
(* different text widths and weights, on a widget that is not shown (so    *)
(* activateIndex does not paint), with the doubles of draw.                *)

\* the arguments addStep is called with: <<key, text, weight>>
LayoutStepInputs ==
    { <<NoKey, "Input", 1>>, <<NoKey, "Align", 2>>, <<NoKey, "Export", 0>> }

\* the widths the widget is drawn at: below the minimum width of the longer
\* bars, and two above every minimum width
LayoutWidths == {114, 301, 400}

\* the record of a draw at width w
OpDraw(w) == [op |-> "draw", key |-> NoKey, index |-> w]

AddLayoutStep ==
    /\ Len(steps) < MaxSteps
    /\ \E in \in LayoutStepInputs :
          Becomes(Ret(addStep(Bar, in[1], in[2], in[3]), "None"), Op("addStep"))
    /\ UNCHANGED visible

\* StepProgressBar.draw(painter) with self.size().width() = w
DrawLayout ==
    /\ \E w \in LayoutWidths :
          \E r \in drawOutcomes(Bar, w) : Becomes(r, OpDraw(w))
    /\ UNCHANGED visible

NextLayout ==
    \/ AddLayoutStep
    \/ ActivateIndex
    \/ DrawLayout

SpecLayout == InitScenario /\ [][NextLayout]_vars

----------------------------------------------------------------------------
(* SpinningCircle (gui/widgets.py): a timer that requests repaints and a   *)
(* paintEvent that reads the clock and draws an arc.  The clock is read at *)
(* whole milliseconds and the model counts time in milliseconds, where the *)
(* code counts nanoseconds: ns / period_ns is the same ratio in both.      *)
(* An angle is kept as the numerator of degrees over period_ns.            *)

period == 2

\* clock units per second: 10**9 in the code, 1000 here
ClockUnitsPerSecond == 1000

\* the clock readings of the model end here
MaxTime == 6000

\* the clock reading when the widget is constructed
ClockStarts == {0, 125}

\* the time that passes between two events
ClockSteps == {125, 2000}

\* period_ns = int(self.period * 10**9)
period_ns == period * ClockUnitsPerSecond

\* degrees without the modulo
degreesMut(now) == -360 * now

\* degrees = - 360 * ns / period_ns with ns = time_ns() % period_ns, as the
\* numerator over period_ns
degrees(now) == -360 * (now % period_ns)

\* the record of a paint at clock reading now
OpPaint(name, now) == [op |-> name, key |-> NoKey, index |-> now]

InitCircle ==
    /\ steps = <<>>
    /\ keys = EmptyDict
    /\ active = -1
    /\ timer = FALSE
    /\ stepKeys = <<>>
    /\ visible = FALSE
    /\ raised = "None"
    /\ lastOp = Op("init")
    /\ \E now \in ClockStarts : circle = [NewCircle EXCEPT !.now = now]
    /\ filter = NewFilter
    /\ tree = NewTree

\* SpinningCircle.start
StartCircle ==
    /\ circle' = [circle EXCEPT !.timer = TRUE]
    /\ lastOp' = Op("start")
    /\ UNCHANGED <<barVars, raised, filter, tree>>

\* SpinningCircle.stop
StopCircle ==
    /\ circle' = [circle EXCEPT !.timer = FALSE]
    /\ lastOp' = Op("stop")
    /\ UNCHANGED <<barVars, raised, filter, tree>>

\* time passes
AdvanceClock ==
    /\ \E d \in ClockSteps :
          /\ circle.now + d <= MaxTime
          /\ circle' = [circle EXCEPT !.now = circle.now + d]
    /\ UNCHANGED <<barVars, raised, lastOp, filter, tree>>

\* SpinningCircle.paintEvent: drawArc(rect, degrees * 16, self.span * 16)
paintCircle(c) == [c EXCEPT !.arc = degrees(c.now)]

\* SpinningCircle.handleTimer, while the timer runs: repaint()
HandleCircleTimer ==
    /\ circle.timer
    /\ circle' = paintCircle(circle)
    /\ lastOp' = OpPaint("handleTimer", circle.now)
    /\ UNCHANGED <<barVars, raised, filter, tree>>

\* SpinningCircle.paintEvent from the host's paint cycle
PaintCircle ==
    /\ circle' = paintCircle(circle)
    /\ lastOp' = OpPaint("paintEvent", circle.now)
    /\ UNCHANGED <<barVars, raised, filter, tree>>

NextCircle ==
    \/ StartCircle
    \/ StopCircle
    \/ AdvanceClock
    \/ HandleCircleTimer
    \/ PaintCircle

SpecCircle == InitCircle /\ [][NextCircle]_vars

----------------------------------------------------------------------------
(* StepFilter (steps/filter.py): the FilterItems of the view, each with a  *)
(* name, its original name and a pending action, and the two counters of  *)
(* the summary, which follow the view's signalSummaryUpdate.               *)

MaxItems == 3

\* the name the items are created with
OriginalName == "a"

\* the values rename is called with
RenameInputs == {"a", "b"}

\* the values the editor hands to setData: "" is an empty edit
EditInputs == RenameInputs \cup {""}

\* FilterItem.actions: the summary field of each counted action
actions == [a \in {"Delete", "Rename"} |->
               IF a = "Delete" THEN "deleted" ELSE "renamed"]

\* FilterItem.__init__
FilterItem(name) == [name |-> name, name_original |-> name, action |-> "-"]

\* StepFilter.handleSummaryUpdate(field, change), the slot of the signal
handleSummaryUpdate(f, field, change) ==
    [f EXCEPT ![field] = @ + change, !.signals = Append(@, <<field, change>>)]

\* setAction that emits nothing for the action it leaves
setActionMut(f, i, value) ==
    LET old == f.items[i].action
        f1  == IF old # value /\ value \in DOMAIN actions
               THEN handleSummaryUpdate(f, actions[value], 1) ELSE f
    IN  [f1 EXCEPT !.items[i].action = value]

\* FilterItem.setAction(value) on item i: the signals are delivered to
\* handleSummaryUpdate as they are emitted
setAction(f, i, value) ==
    LET old == f.items[i].action
        f1  == IF old # value /\ old \in DOMAIN actions
               THEN handleSummaryUpdate(f, actions[old], -1) ELSE f
        f2  == IF old # value /\ value \in DOMAIN actions
               THEN handleSummaryUpdate(f1, actions[value], 1) ELSE f1
    IN  [f2 EXCEPT !.items[i].action = value]

\* rename that marks every renamed item, also one renamed back
renameMut(f, i, value) ==
    setAction([f EXCEPT !.items[i].name = value], i, "Rename")

\* FilterItem.rename(value)
rename(f, i, value) ==
    LET f1 == [f EXCEPT !.items[i].name = value]
    IN  IF value # f1.items[i].name_original
        THEN setAction(f1, i, "Rename")
        ELSE setAction(f1, i, "-")

\* FilterItem.delete
delete(f, i) == setAction(f, i, "Delete")

\* FilterItem.clear
clear(f, i) ==
    setAction([f EXCEPT !.items[i].name = f.items[i].name_original], i, "-")

\* FilterItem.setData(0, EditRole, value)
setData(f, i, value) ==
    IF value = "" THEN f
    ELSE IF value # f.items[i].name THEN rename(f, i, value)
    ELSE f

RECURSIVE deleteAll(_, _)
\* for item in self.view.selectedItems(): item.delete()
deleteAll(f, sel) ==
    IF sel = <<>> THEN f ELSE deleteAll(delete(f, Head(sel)), Tail(sel))

RECURSIVE clearAll(_, _)
\* for item in self.view.selectedItems(): item.clear()
clearAll(f, sel) ==
    IF sel = <<>> THEN f ELSE clearAll(clear(f, Head(sel)), Tail(sel))

\* the selections of the view: item positions in view order
Selections(n) ==
    { sel \in UNION { [1 .. k -> 1 .. n] : k \in 0 .. n } :
        \A x, y \in 1 .. Len(sel) : x < y => sel[x] < sel[y] }

\* self.view.scrollToItem(item) after the loop: item is unbound when
\* nothing is selected
scrollToLast(sel) == IF sel = <<>> THEN "UnboundLocalError" ELSE "None"

\* the record of a call on item i
OpItem(name, i) == [op |-> name, key |-> NoKey, index |-> i]

\* a call starts with no signal emitted
Quiet(f) == [f EXCEPT !.signals = <<>>]

\* StepFilter.add_dummy_contents: count new FilterItems
InitFilter ==
    /\ steps = <<>>
    /\ keys = EmptyDict
    /\ active = -1
    /\ timer = FALSE
    /\ stepKeys = <<>>
    /\ visible = FALSE
    /\ raised = "None"
    /\ lastOp = Op("init")
    /\ circle = NewCircle
    /\ tree = NewTree
    /\ \E count \in 1 .. MaxItems :
          filter = [NewFilter EXCEPT
                      !.items = [k \in 1 .. count |-> FilterItem(OriginalName)]]

RenameItem ==
    /\ \E i \in 1 .. Len(filter.items), value \in RenameInputs :
          /\ filter' = rename(Quiet(filter), i, value)
          /\ lastOp' = OpItem("rename", i)
    /\ raised' = "None"
    /\ UNCHANGED <<barVars, circle, tree>>

SetData ==
    /\ \E i \in 1 .. Len(filter.items), value \in EditInputs :
          /\ filter' = setData(Quiet(filter), i, value)
          /\ lastOp' = OpItem("setData", i)
    /\ raised' = "None"
    /\ UNCHANGED <<barVars, circle, tree>>

DeleteItem ==
    /\ \E i \in 1 .. Len(filter.items) :
          /\ filter' = delete(Quiet(filter), i)
          /\ lastOp' = OpItem("delete", i)
    /\ raised' = "None"
    /\ UNCHANGED <<barVars, circle, tree>>

ClearItem ==
    /\ \E i \in 1 .. Len(filter.items) :
          /\ filter' = clear(Quiet(filter), i)
          /\ lastOp' = OpItem("clear", i)
    /\ raised' = "None"
    /\ UNCHANGED <<barVars, circle, tree>>

\* StepFilter.handleDelete
HandleDelete ==
    /\ \E sel \in Selections(Len(filter.items)) :
          /\ filter' = deleteAll(Quiet(filter), sel)
          /\ raised' = scrollToLast(sel)
    /\ lastOp' = Op("handleDelete")
    /\ UNCHANGED <<barVars, circle, tree>>

\* StepFilter.handleClear
HandleClear ==
    /\ \E sel \in Selections(Len(filter.items)) :
          /\ filter' = clearAll(Quiet(filter), sel)
          /\ raised' = scrollToLast(sel)
    /\ lastOp' = Op("handleClear")
    /\ UNCHANGED <<barVars, circle, tree>>

NextFilter ==
    \/ RenameItem
    \/ SetData
    \/ DeleteItem
    \/ ClearItem
    \/ HandleDelete
    \/ HandleClear

SpecFilter == InitFilter /\ [][NextFilter]_vars

----------------------------------------------------------------------------
(* TreeWidget (gui/widgets.py): get_next_item and the generator iterate    *)
(* over the items of a tree.  The items are numbered 1 .. N; parent[i] is  *)
(* the parent of item i, 0 for a top-level item, and the children of an    *)
(* item (and the top-level items) are ordered by number.                   *)

MaxNodes == 4

\* the trees of n items
Trees(n) == { par \in [1 .. n -> 0 .. n - 1] : \A i \in 1 .. n : par[i] < i }

RECURSIVE ChildrenFrom(_, _, _)
\* the children of p numbered i or higher, in order (p = 0: the top level)
ChildrenFrom(par, p, i) ==
    IF i > Len(par) THEN <<>>
    ELSE (IF par[i] = p THEN <<i>> ELSE <<>>) \o ChildrenFrom(par, p, i + 1)

Children(par, p) == ChildrenFrom(par, p, 1)

\* item.childCount() / self.topLevelItemCount()
childCount(par, p) == Len(Children(par, p))

\* item.child(index) / self.topLevelItem(index), index counted from 0
child(par, p, index) == Children(par, p)[index + 1]

\* parent.indexOfChild(item) / self.indexOfTopLevelItem(item)
indexOfChild(par, p, item) ==
    (CHOOSE k \in 1 .. childCount(par, p) : Children(par, p)[k] = item) - 1

RECURSIVE nextSibling(_, _)
\* the loop of get_next_item: the next sibling of the item or of its
\* nearest ancestor that has one, else the top-level item after the
\* item's top-level ancestor, wrapping to the first
nextSibling(par, item) ==
    LET parent == par[item]
        index  == indexOfChild(par, parent, item) + 1
        count  == childCount(par, parent)
    IN  IF parent # 0
        THEN IF index < count THEN child(par, parent, index)
             ELSE nextSibling(par, parent)
        ELSE child(par, 0, IF index >= count THEN 0 ELSE index)

\* get_next_item descending to the last child
get_next_itemMut(par, item) ==
    IF childCount(par, item) > 0
    THEN child(par, item, childCount(par, item) - 1)
    ELSE nextSibling(par, item)

\* TreeWidget.get_next_item(item) for an item of the tree
get_next_item(par, item) ==
    IF childCount(par, item) > 0 THEN child(par, item, 0)
    ELSE nextSibling(par, item)

\* TreeWidget.iterate(start, end) up to its first yield
InitTree ==
    /\ steps = <<>>
    /\ keys = EmptyDict
    /\ active = -1
    /\ timer = FALSE
    /\ stepKeys = <<>>
    /\ visible = FALSE
    /\ raised = "None"
    /\ lastOp = Op("init")
    /\ circle = NewCircle
    /\ filter = NewFilter
    /\ \E n \in 1 .. MaxNodes :
          \E par \in Trees(n), start \in 1 .. n, end \in 1 .. n :
              tree = [parent |-> par, start |-> start, end |-> end,
                      item |-> get_next_item(par, start),
                      visited |-> <<start>>, done |-> FALSE]

\* one round of the loop of iterate: yield next_item and move on, or yield
\* end and return
IterateStep ==
    /\ ~tree.done
    /\ Len(tree.visited) <= Len(tree.parent) + 1
    /\ IF tree.item = tree.end
       THEN tree' = [tree EXCEPT !.visited = Append(@, tree.end),
                                 !.done = TRUE]
       ELSE tree' = [tree EXCEPT !.visited = Append(@, tree.item),
                                 !.item = get_next_item(tree.parent, tree.item)]
    /\ lastOp' = Op("iterate")
    /\ UNCHANGED <<barVars, raised, circle, filter>>

NextTree == IterateStep

SpecTree == InitTree /\ [][NextTree]_vars

----------------------------------------------------------------------------
(* Properties *)

\* status of the step with Python index i
StatusAt(i) == steps[i + 1].status

LastIndex == Len(steps) - 1

Current == {"Active", "Ongoing", "Failed"}

\* C1: on a bar with at least one step, after activateIndex(i) every step
\* with index < i is Complete, every step with index > i other than the last
\* is Pending, and the step at i, when 0 <= i < len(steps), is Active.
C1_ActivateIndexStamps ==
    (lastOp.op = "activateIndex" /\ Len(steps) >= 1) =>
        LET i == lastOp.index
        IN  /\ \A k \in 0 .. LastIndex : k < i => StatusAt(k) = "Complete"
            /\ \A k \in 0 .. LastIndex :
                  (k > i /\ k # LastIndex) => StatusAt(k) = "Pending"
            /\ (0 <= i /\ i < Len(steps)) => StatusAt(i) = "Active"

\* activateIndex(1) has run on a three-step bar
C1_Witness ==
    /\ lastOp = OpIndex(1)
    /\ Len(steps) = 3
    /\ StatusAt(0) = "Complete"
    /\ StatusAt(1) = "Active"

C3_ClampedWithoutException ==
    (lastOp.op = "activateIndex"
        /\ (lastOp.index < -1 \/ lastOp.index > Len(steps))) =>
        /\ raised = "None"
        /\ active = IF lastOp.index < -1 THEN -1 ELSE Len(steps)

\* C4: after an addStep exactly one step is Final, and it is the last one.
C4_AddStepKeepsFinalLast ==
    lastOp.op = "addStep" =>
        {k \in 0 .. LastIndex : StatusAt(k) = "Final"} = {LastIndex}

\* C5: at most one step is Active, Ongoing or Failed, and any such step is
\* the one at activeIndex.
C5_SingleCurrentStep ==
    \A k \in 0 .. LastIndex : StatusAt(k) \in Current => k = active

\* setOngoing has marked the middle step of a three-step bar
C5_Witness ==
    /\ lastOp.op = "setOngoing"
    /\ Len(steps) = 3
    /\ active = 1
    /\ StatusAt(1) = "Ongoing"

\* C6: activateKey with a key that was never registered does not raise and
\* leaves activeIndex at -1 (here on a bar that has steps).
C6_AbsentKeyDeactivates ==
    (lastOp.op = "activateKey" /\ lastOp.key # NoKey
        /\ lastOp.key \notin DOMAIN keys /\ Len(steps) >= 1) =>
        /\ raised = "None"
        /\ active = -1

\* C7 as stated: for every step added with key K at position p,
\* activateKey(K) and activateIndex(p) give the same object and outcome.
C7_KeyRoundTrip ==
    \A p \in 0 .. LastIndex : \A w \in WidthInputs :
        stepKeys[p + 1] # NoKey =>
            activateKey(Bar, stepKeys[p + 1], visible, w)
                = activateIndex(Bar, p, visible, w)

\* C7 amended: for the last step added with key K, at position p,
\* activateKey(K) and activateIndex(p) give the same activeIndex, statuses,
\* timer state and outcome.
C7_LastKeyRoundTrip ==
    \A p \in 0 .. LastIndex : \A w \in WidthInputs :
        (/\ stepKeys[p + 1] # NoKey
         /\ \A q \in (p + 1) .. LastIndex : stepKeys[q + 1] # stepKeys[p + 1]) =>
            activateKey(Bar, stepKeys[p + 1], visible, w)
                = activateIndex(Bar, p, visible, w)

\* activateKey has activated the second of two steps with different keys
C7_Witness ==
    /\ lastOp.op = "activateKey"
    /\ Len(steps) >= 2
    /\ stepKeys[1] # stepKeys[2]
    /\ lastOp.key = stepKeys[2]
    /\ active = 1
    /\ StatusAt(1) = "Active"

\* C8: on the bar built by the scenario's three addStep calls, after
\* activateKey('align') input is Complete, align is Active, export is Final
\* and activeIndex is 1.
C8_Scenario ==
    (lastOp = OpKey("align")
        /\ stepKeys = <<"input", "align", "export">>) =>
        /\ StatusAt(0) = "Complete"
        /\ StatusAt(1) = "Active"
        /\ StatusAt(2) = "Final"
        /\ active = 1

\* activateKey('align') has returned on the scenario's bar
C8_Witness ==
    /\ lastOp = OpKey("align")
    /\ stepKeys = <<"input", "align", "export">>
    /\ [k \in 1 .. 3 |-> steps[k].text] = <<"Input", "Align", "Export">>
    /\ [k \in 1 .. 3 |-> steps[k].weight] = <<1, 3, 1>>
    /\ raised = "None"
    /\ active = 1

\* C9: setActive, setFailed and activateIndex leave the repaint timer
\* stopped.
C9_TimerStoppedAfterCall ==
    lastOp.op \in {"setActive", "setFailed", "activateIndex"} => ~timer

\* C10: the repaint timer runs only while some step is Ongoing.
C10_TimerOnlyWhileOngoing ==
    timer => \E k \in 0 .. LastIndex : StatusAt(k) = "Ongoing"

\* the status of every step, in order
StatusList(s) == [k \in 1 .. Len(s) |-> s[k].status]

\* C11: when activeIndex is -1 or len(steps), setActive, setFailed and
\* setOngoing leave the status of every step and activeIndex unchanged.
C11_OutOfRangeStatusNoOp ==
    (active = -1 \/ active = Len(steps)) =>
        \A r \in {setActive(Bar), setFailed(Bar), setOngoing(Bar)} :
            /\ StatusList(r.steps) = StatusList(steps)
            /\ r.active = active

\* setOngoing has returned on a bar with steps and nothing activated
C11_Witness ==
    /\ lastOp.op = "setOngoing"
    /\ active = -1
    /\ Len(steps) = 3
    /\ StatusAt(LastIndex) = "Final"
    /\ timer

\* C12: -1 <= activeIndex <= len(steps) in every reachable state.
C12_ActiveIndexInRange == -1 <= active /\ active <= Len(steps)

\* C13: activateIndex, activateKey(None), activateNext, activatePrevious,
\* setActive, setOngoing and setFailed return without raising, in every
\* reachable state.
C13_NoCallRaises ==
    (\/ lastOp.op \in {"activateIndex", "activateNext", "activatePrevious",
                       "setActive", "setOngoing", "setFailed"}
     \/ lastOp = OpKey(NoKey)) =>
        raised = "None"

\* the list of anchors of a step list
Anchors(s) == [k \in 1 .. Len(s) |-> s[k].pos]

\* the width the last draw ran at
DrawnWidth == lastOp.index

\* a draw has just run its layout pass over steps with positive total weight
\* at a width of at least minimumWidth
LaidOut ==
    /\ lastOp.op = "draw"
    /\ totalStepWeight(steps) > 0
    /\ DrawnWidth >= minimumWidth(steps)

\* 2 * totalStepWeight times: the distance of anchors i and i+1 beyond the
\* padding and the two half text widths, minus the share
\* (ki / totalWeight) * (W - minimumWidth) of step i
GapError(i) ==
    LET den == 2 * totalStepWeight(steps)
    IN  den * (steps[i + 1].pos - steps[i].pos - textPadding)
          - (den \div 2) * (steps[i].width + steps[i + 1].width)
          - 2 * steps[i].weight * (DrawnWidth - minimumWidth(steps))

\* 2 * totalStepWeight times: the sum of the gaps between consecutive
\* anchors minus W - minimumWidth
GapSumError ==
    LET den == 2 * totalStepWeight(steps)
        n   == Len(steps)
    IN  den * (steps[n].pos - steps[1].pos - (n - 1) * textPadding)
          - den * SumWidth(steps)
          + (den \div 2) * (steps[1].width + steps[n].width)
          - den * (DrawnWidth - minimumWidth(steps))

\* C14: with positive total weight and W >= minimumWidth, the anchors put
\* the gap (ki / totalWeight) * (W - minimumWidth) after step i, and the
\* gaps sum to W - minimumWidth, each within the one pixel that the
\* truncation of the anchors can take or give.
C14_GapsProportional ==
    LaidOut =>
        LET den == 2 * totalStepWeight(steps)
        IN  /\ \A i \in 1 .. Len(steps) - 1 : Abs(GapError(i)) <= den
            /\ Abs(GapSumError) <= den

\* a draw at width 301 of three steps with text widths 35, 30, 42 and
\* weights 1 and 2 before the last: 114 pixels to share, 38 after the first
\* step and 76 after the second
C14_Witness ==
    /\ LaidOut
    /\ DrawnWidth = 301
    /\ Len(steps) = 3
    /\ steps[1].weight = 1 /\ steps[2].weight = 2
    /\ steps[1].text = "Input" /\ steps[2].text = "Align" /\ steps[3].text = "Export"
    /\ Anchors(steps) = <<37, 128, 260>>

\* C15: when the total weight of all steps but the last is 0, the layout
\* pass does not divide by zero and places every anchor with no extra
\* spacing.
C15_ZeroWeightNoDivision ==
    (lastOp.op = "draw" /\ steps # <<>> /\ totalStepWeight(steps) = 0) =>
        /\ raised # "ZeroDivisionError"
        /\ \A i \in 1 .. Len(steps) - 1 :
              2 * (steps[i + 1].pos - steps[i].pos - textPadding)
                  = steps[i].width + steps[i + 1].width

\* C16: the last step's weight does not affect the layout: at every width,
\* the bar with any other weight on its last step gets the same anchors
\* (and the same exception) from draw.
C16_LastWeightIrrelevant ==
    steps # <<>> =>
        \A w \in LayoutWidths, in \in LayoutStepInputs :
            LET other == [Bar EXCEPT !.steps[Len(steps)].weight = in[3]]
            IN  { <<Anchors(r.bar.steps), r.exc>> : r \in drawOutcomes(other, w) }
                  = { <<Anchors(r.bar.steps), r.exc>> : r \in drawOutcomes(Bar, w) }

\* a draw laid out a bar whose last step has a positive weight
C16_Witness ==
    /\ LaidOut
    /\ raised = "None"
    /\ Len(steps) = 3
    /\ steps[3].weight = 2
    /\ steps[3].pos > steps[2].pos

\* C17: the segment between adjacent steps j and j+1 is drawn complete
\* (bold) exactly when anchor[j+1] - indicatorRadius - indicatorPadding is
\* strictly less than the anchor of the step at activeIndex, and in the base
\* style otherwise.
C17_SegmentCompleteRule ==
    (lastOp.op = "draw" /\ raised = "None"
       /\ 0 <= active /\ active < Len(steps)) =>
        \A j \in 0 .. Len(steps) - 2 :
            LET line == drawnLines(steps, active)[j + 1]
            IN  /\ line.color \in {"bold", "base"}
                /\ line.color = "bold" <=>
                      steps[j + 2].pos - indicatorRadius - indicatorPadding
                          < steps[active + 1].pos

\* a draw with the middle step of three active: the segment on its left is
\* bold, the one on its right is base
C17_Witness ==
    /\ lastOp.op = "draw" /\ raised = "None"
    /\ Len(steps) = 3 /\ active = 1
    /\ DrawnWidth >= minimumWidth(steps)
    /\ steps[1].pos < steps[2].pos /\ steps[2].pos < steps[3].pos
    /\ drawnLines(steps, active)[1].color = "bold"
    /\ drawnLines(steps, active)[2].color = "base"

\* a step list with the cached anchors blanked: all that draw may not write
WithoutAnchors(s) == [k \in 1 .. Len(s) |-> [s[k] EXCEPT !.pos = 0]]

\* a step changes at most the cached anchors and the exception raised
OnlyAnchorsChange ==
    /\ WithoutAnchors(steps') = WithoutAnchors(steps)
    /\ active' = active
    /\ keys' = keys
    /\ timer' = timer
    /\ stepKeys' = stepKeys

\* a second draw at the same width leaves the anchors of the first
DrawIdempotent ==
    \A w \in WidthInputs :
        LET first  == draw(Bar, w)
            second == draw(first.bar, w)
        IN  /\ Anchors(second.bar.steps) = Anchors(first.bar.steps)
            /\ second.exc = first.exc

\* C18: the draw entry point and the timer tick handler change no step's
\* status, not activeIndex, the key mapping or the timer's running state;
\* draw writes only the cached anchors, and two consecutive draws at the
\* same geometry give the same anchors.
C18_DrawOnlyWritesAnchors ==
    /\ []DrawIdempotent
    /\ [][(PaintEvent \/ HandleTimer) => OnlyAnchorsChange]_vars

\* a paint of a shown three-step bar whose second step is Ongoing, with the
\* timer running, has stored the anchors
C18_Witness ==
    /\ lastOp.op = "paintEvent"
    /\ raised = "None"
    /\ timer
    /\ Len(steps) = 3
    /\ active = 1
    /\ StatusAt(1) = "Ongoing"
    /\ steps[1].pos < steps[2].pos /\ steps[2].pos < steps[3].pos

\* the data fields and the exception after a step
Outcome == Ret([steps |-> steps', keys |-> keys', active |-> active',
                timer |-> timer', stepKeys |-> stepKeys'], raised')

\* C19: activateNext() has the effect of activateIndex(activeIndex + 1) and
\* activatePrevious() that of activateIndex(activeIndex - 1); each call
\* moves activeIndex one step until it stays at len(steps), respectively -1.
C19_NextPreviousSaturate ==
    [][ /\ ActivateNext =>
             /\ \E w \in WidthInputs :
                   Outcome = activateIndex(Bar, active + 1, visible, w)
             /\ active' = clampIndex(active + 1, Len(steps))
        /\ ActivatePrevious =>
             /\ \E w \in WidthInputs :
                   Outcome = activateIndex(Bar, active - 1, visible, w)
             /\ active' = clampIndex(active - 1, Len(steps))
      ]_vars

\* C20: addStep(key, label, weight) appends exactly one step with the given
\* label and weight and status Pending at the end, records key -> its index
\* when a key is given, and leaves the earlier steps (order, labels,
\* weights) and activeIndex unchanged.
C20_AddStepAppends ==
    [][ AddStep =>
          \E in \in StepInputs :
              /\ Len(steps') = Len(steps) + 1
              /\ steps'[Len(steps')].text = in[2]
              /\ steps'[Len(steps')].weight = in[3]
              /\ steps'[Len(steps')].status = "Pending"
              /\ SubSeq(steps', 1, Len(steps)) = steps
              /\ active' = active
              /\ IF in[1] # NoKey
                 THEN /\ DOMAIN keys' = DOMAIN keys \cup {in[1]}
                      /\ keys'[in[1]] = Len(steps)
                      /\ \A k \in DOMAIN keys \ {in[1]} : keys'[k] = keys[k]
                 ELSE keys' = keys
      ]_vars

\* addStep with a key on a two-step bar whose first step is active: the new
\* third step is Pending under index 2, the others are as they were
C20_Witness ==
    /\ lastOp.op = "addStep"
    /\ Len(steps) = 3
    /\ active = 0
    /\ StatusAt(0) = "Active" /\ StatusAt(1) = "Final" /\ StatusAt(2) = "Pending"
    /\ steps[3].text = "Input" /\ steps[3].weight = 1
    /\ steps[1].text = "" /\ steps[2].text = ""
    /\ "input" \in DOMAIN keys /\ keys["input"] = 2

\* C21: every key maps to an index in [0, len(steps)), no two keys map to
\* the same index, and a key maps to the step it was added with.
C21_KeysWellFormed ==
    \A k \in DOMAIN keys :
        /\ 0 <= keys[k] /\ keys[k] < Len(steps)
        /\ stepKeys[keys[k] + 1] = k
        /\ \A k2 \in DOMAIN keys : keys[k2] = keys[k] => k2 = k

\* two keys registered on a three-step bar, one step added without a key,
\* after a setSteps that replaced an earlier list
C21_Witness ==
    /\ lastOp.op = "addStep"
    /\ stepKeys = <<"align", NoKey, "input">>
    /\ DOMAIN keys = {"align", "input"}
    /\ keys["align"] = 0 /\ keys["input"] = 2
    /\ active = 3

\* C22: setOngoing with 0 <= activeIndex < len(steps) leaves the current
\* step Ongoing and the timer running, and in every reachable state a step
\* with status Ongoing implies that the timer is running.
C22_OngoingImpliesTimer ==
    /\ (lastOp.op = "setOngoing" /\ 0 <= active /\ active < Len(steps)) =>
          (StatusAt(active) = "Ongoing" /\ timer)
    /\ (\E i \in 0 .. LastIndex : StatusAt(i) = "Ongoing") => timer

\* setOngoing has returned with the middle step of three current
C22_Witness ==
    /\ lastOp.op = "setOngoing"
    /\ Len(steps) = 3
    /\ active = 1
    /\ StatusAt(0) = "Complete" /\ StatusAt(1) = "Ongoing" /\ StatusAt(2) = "Final"
    /\ timer

\* the statuses activateIndex(i) is to leave on n steps: Complete below i,
\* Active at i, Pending above i, Final on the last step when it is above i
StampedStatuses(i, n) ==
    LET c == clampIndex(i, n)
    IN  [k \in 1 .. n |->
            IF k - 1 < c THEN "Complete"
            ELSE IF k - 1 = c THEN "Active"
            ELSE IF k = n THEN "Final"
            ELSE "Pending"]

\* C27: after activateIndex(i) activeIndex, every status and the timer
\* state depend only on i and the number of steps, and a second
\* activateIndex(i) changes nothing.
C27_ActivateIndexMemoryless ==
    /\ lastOp.op = "activateIndex" =>
          /\ active = clampIndex(lastOp.index, Len(steps))
          /\ StatusList(steps) = StampedStatuses(lastOp.index, Len(steps))
          /\ ~timer
    /\ \A i \in IndexInputs, w \in WidthInputs :
          LET once == activateIndex(Bar, i, visible, w)
          IN activateIndex(once.bar, i, visible, w) = once

\* C28: for activeIndex a in [-1, len(steps)] and width >= minimumWidth the
\* connecting lines are drawn, and the segment between steps j and j+1 is
\* complete exactly when j+1 <= a.
C28_SegmentsCompleteByIndex ==
    (lastOp.op = "draw" /\ DrawnWidth >= minimumWidth(steps)
       /\ -1 <= active /\ active <= Len(steps)) =>
        /\ raised = "None"
        /\ \A j \in 0 .. Len(steps) - 2 :
              drawnLines(steps, active)[j + 1].color = "bold" <=> j + 1 <= active

\* C29: for W >= minimumWidth and positive total weight the anchors are
\* strictly increasing, the first is textPadding + w0/2 and the last is
\* W - textPadding - wn/2, each up to the truncation of the anchor, and
\* every label lies within the widget.
C29_AnchorsWithinWidget ==
    LaidOut =>
        LET n == Len(steps)
        IN  /\ \A i \in 1 .. n - 1 : steps[i].pos < steps[i + 1].pos
            /\ steps[1].pos = Trunc(2 * textPadding + steps[1].width, 2)
            /\ Abs(2 * steps[n].pos + steps[n].width
                     - 2 * (DrawnWidth - textPadding)) <= 2
            /\ 2 * steps[1].pos - steps[1].width >= 0
            /\ 2 * steps[n].pos + steps[n].width <= 2 * DrawnWidth

\* a draw at width 400 of three steps with text widths 35, 30 and 42: the
\* last anchor is 400 - 20 - 21
C29_Witness ==
    /\ LaidOut
    /\ DrawnWidth = 400
    /\ steps[1].text = "Input" /\ steps[1].weight = 1
    /\ Anchors(steps) = <<37, 161, 359>>

\* C30: setSteps(strings) replaces the steps by one Pending step per
\* string, rebuilds the key mapping from the strings, and leaves
\* activeIndex and the timer's running state as they were.
C30_SetStepsReplaces ==
    \A strings \in StringsInputs :
        LET b == setSteps(Bar, strings)
        IN  /\ Len(b.steps) = Len(strings)
            /\ \A k \in 1 .. Len(strings) : b.steps[k].status = "Pending"
            /\ DOMAIN b.keys = {strings[k] : k \in 1 .. Len(strings)}
            /\ \A k \in 1 .. Len(strings) :
                  \/ b.keys[strings[k]] = k - 1
                  \/ \E k2 \in (k + 1) .. Len(strings) : strings[k2] = strings[k]
            /\ b.active = active
            /\ b.timer = timer

\* setSteps has replaced an activated, animated bar by two steps: the index
\* and the timer are those of the old bar
C30_Witness ==
    /\ lastOp.op = "setSteps"
    /\ Len(steps) = 2
    /\ StatusList(steps) = <<"Pending", "Pending">>
    /\ DOMAIN keys = {"align", "input"}
    /\ active = 3
    /\ timer

\* an arc has been drawn by the last call
ArcDrawn == lastOp.op \in {"paintEvent", "handleTimer"}

\* a paint stores nothing but the arc it draws
PaintKeepsState ==
    (PaintCircle \/ HandleCircleTimer) =>
        /\ circle'.timer = circle.timer
        /\ circle'.now = circle.now
        /\ circle'.arc = degrees(circle.now)

\* C23 as stated: the angle drawn is (now mod period) / period * 360
\* degrees, so it lies in [0, 360).
C23_AngleZeroTo360 ==
    ArcDrawn =>
        /\ circle.arc = 360 * (lastOp.index % period_ns)
        /\ 0 <= circle.arc /\ circle.arc < 360 * period_ns

\* C23, amended: the angle drawn is -(now mod period) / period * 360
\* degrees, computed from the time of the draw only, so it lies in
\* (-360, 0], is the same for two draws a whole period apart, and a paint
\* stores no phase.
C23_AngleClockwise ==
    /\ [](ArcDrawn =>
            /\ circle.arc = -360 * (lastOp.index % period_ns)
            /\ -360 * period_ns < circle.arc /\ circle.arc <= 0)
    /\ [](\A now \in 0 .. MaxTime : degrees(now + period_ns) = degrees(now))
    /\ [][PaintKeepsState]_vars

\* the timer has painted 125 ms into the second period: -22.5 degrees
C23_Witness ==
    /\ lastOp = OpPaint("handleTimer", 2125)
    /\ circle.timer
    /\ circle.arc * 2 = -45 * period_ns

\* the number of items of the view whose pending action is a
CountAction(f, a) ==
    Cardinality({i \in 1 .. Len(f.items) : f.items[i].action = a})

\* the sum of the changes signalled for a summary field
RECURSIVE SignalSum(_, _)
SignalSum(sigs, field) ==
    IF sigs = <<>> THEN 0
    ELSE (IF Head(sigs)[1] = field THEN Head(sigs)[2] ELSE 0)
           + SignalSum(Tail(sigs), field)

\* the signals of a call: one -1 per item that left a counted action, one
\* +1 per item that took one, nothing for items whose action stayed
SignalsFollowChanges ==
    LET n       == Len(filter.items)
        changed == {i \in 1 .. n : filter'.items[i].action # filter.items[i].action}
        left    == {i \in changed : filter.items[i].action \in DOMAIN actions}
        taken   == {i \in changed : filter'.items[i].action \in DOMAIN actions}
    IN  filter' # filter =>
          /\ Len(filter'.signals) = Cardinality(left) + Cardinality(taken)
          /\ \A k \in 1 .. Len(filter'.signals) : filter'.signals[k][2] \in {-1, 1}
          /\ \A a \in DOMAIN actions :
                SignalSum(filter'.signals, actions[a])
                    = CountAction(filter', a) - CountAction(filter, a)

\* C24: after any rename, delete and clear operations on the items the
\* 'renamed' counter is the number of items with action 'Rename' and the
\* 'deleted' counter the number with action 'Delete'; an action change
\* signals -1 for the old action and +1 for the new one, and an unchanged
\* action signals nothing.
C24_CountersMatchActions ==
    /\ [](/\ filter.renamed = CountAction(filter, "Rename")
          /\ filter.deleted = CountAction(filter, "Delete"))
    /\ [][SignalsFollowChanges]_vars

\* a renamed item has just been deleted: both signals were emitted, one
\* other item is still renamed
C24_Witness ==
    /\ lastOp = OpItem("delete", 2)
    /\ Len(filter.items) = 3
    /\ filter.items[1].action = "Rename"
    /\ filter.items[2].action = "Delete" /\ filter.items[2].name = "b"
    /\ filter.items[3].action = "-"
    /\ filter.signals = << <<"renamed", -1>>, <<"deleted", 1>> >>
    /\ filter.renamed = 1 /\ filter.deleted = 1

\* C25: after any rename(value), delete() and clear() calls, action is
\* 'Rename' only if name differs from name_original, and clear() restores
\* name = name_original with action '-'.
C25_RenameOnlyWhenChanged ==
    /\ \A i \in 1 .. Len(filter.items) :
          filter.items[i].action = "Rename" =>
              filter.items[i].name # filter.items[i].name_original
    /\ lastOp.op = "clear" =>
          /\ filter.items[lastOp.index].name
                = filter.items[lastOp.index].name_original
          /\ filter.items[lastOp.index].action = "-"
    /\ \A i \in 1 .. Len(filter.items) :
          LET item == clear(filter, i).items[i]
          IN item.name = item.name_original /\ item.action = "-"

\* clear() has restored a renamed, then deleted item while another item is
\* still renamed
C25_Witness ==
    /\ lastOp = OpItem("clear", 2)
    /\ Len(filter.items) = 2
    /\ filter.items[1].action = "Rename" /\ filter.items[1].name = "b"
    /\ filter.items[2] = FilterItem(OriginalName)
    /\ filter.signals = << <<"deleted", -1>> >>

RECURSIVE PreOrderOf(_, _)
\* the items below the given items in pre-order: an item, then its
\* children's subtrees, then its later siblings
PreOrderOf(par, items) ==
    IF items = <<>> THEN <<>>
    ELSE <<Head(items)>> \o PreOrderOf(par, Children(par, Head(items)))
                         \o PreOrderOf(par, Tail(items))

\* all items of the tree in pre-order
PreOrder(par) == PreOrderOf(par, Children(par, 0))

\* a sequence without repetitions turned so that it begins with x
RotateTo(seq, x) ==
    LET k == CHOOSE j \in 1 .. Len(seq) : seq[j] = x
    IN SubSeq(seq, k, Len(seq)) \o SubSeq(seq, 1, k - 1)

\* C26: applying get_next_item repeatedly from any item visits every item
\* once in pre-order, wrapping from the last item to the first top-level
\* item, and is back at the start after exactly N applications; so the
\* loop of iterate(start, end) ends within N rounds for every pair.
C26_NextItemPreOrderCycle ==
    LET n     == Len(tree.parent)
        cycle == RotateTo(PreOrder(tree.parent), tree.start)
    IN  /\ Len(cycle) = n
        /\ {cycle[k] : k \in 1 .. n} = 1 .. n
        /\ Len(tree.visited) <= n + 1
        /\ ~tree.done => Len(tree.visited) <= n
        /\ \A k \in 1 .. Len(tree.visited) :
              tree.visited[k] = cycle[((k - 1) % n) + 1]
        /\ ~tree.done => tree.item = cycle[(Len(tree.visited) % n) + 1]
        /\ tree.done => tree.visited[Len(tree.visited)] = tree.end

\* iterate(start, start) has returned on a tree of four items with two
\* top-level items, the first with a child and a grandchild, started at
\* the grandchild
C26_Witness ==
    /\ tree.done
    /\ tree.parent = <<0, 1, 2, 0>>
    /\ tree.start = 3 /\ tree.end = 3
    /\ tree.visited = <<3, 4, 1, 2, 3>>

====
